---- MODULE Spec2Model ----
(***************************************************************************)
(* The token-sequence packing and shard re-slicing pipeline of             *)
(* runs/gptneo/c4_sequence_packing.py: the splitter, the first-fit         *)
(* decreasing packer and the shard writer of map_to_batch, and the         *)
(* rolling-buffer reslicer process_rest.                                   *)
(*                                                                         *)
(* Lists are TLA+ sequences (1-based); positions and indices that the      *)
(* code computes (split_pos, the index of a sub-sequence, position_ids)    *)
(* keep their 0-based Python values.                                       *)
(***************************************************************************)
EXTENDS Integers, Sequences, FiniteSets, TLC

\* BLOCK_SIZE and SLICE_SIZE are the script's two constants, scaled down
\* (512 and 5000 in the script) so that every case can be enumerated.
BLOCK_SIZE == 3
SLICE_SIZE == 2
\* The longest raw token list the tokenizer returns for one text.
MaxTokens == 4
\* The largest number of texts in one batch.
MaxBatch == 3
\* The largest number of map_to_batch calls of one run.
MaxCalls == 2
\* The most leftover shards, and the most Blocks in one, handed to
\* process_rest when it is run on its own.
MaxFiles == 3
MaxShardBlocks == 4

\* Token ids: the boundary token ".", the terminator, and any other token.
split_value == 13
eos_token_id == 50256
word_token_id == 7

VARIABLES
    ds,               \* the token lists the tokenizer can return for a text
    pc,               \* the position of the running function
    idx0,             \* idx[0] of the running map_to_batch call
    nraw,             \* how many of raw_tokenized the for loop has taken
    t,                \* the splitter's current remainder
    cuts,             \* history: the cuts made so far in the current text
    tokenized,        \* the sub-sequences emitted by the splitter
    lengths,          \* their recorded lengths
    indexed_lengths,  \* the sorted (length, index) pairs
    pk,               \* how many of indexed_lengths the packing loop has taken
    bins,             \* bins[i]: the (length, index) members of bin i
    bin_space,        \* bin_space[i]: the free capacity of bin i
    bi,               \* how many bins the tensor loop has finalised
    out_input_ids,    \* the write buffer, token rows
    out_position_ids, \* the write buffer, position rows
    slice_counter,    \* the counter of numbered shards of this call
    files,            \* the shard directory: path -> tensor_dict
    ncall,            \* how many map_to_batch calls have started
    all_files,        \* process_rest: the paths still to pop
    file,             \* process_rest: the path popped last
    input_buffer,     \* process_rest: the list of buffered token tensors
    pos_buffer,       \* process_rest: the list of buffered position tensors
    buffer_length,    \* process_rest: the running count of buffered Blocks
    counter,          \* process_rest: the counter of the shards it writes
    consumed,         \* history: path -> tensor_dict of every shard read
    removed,          \* history: the paths os.remove has deleted
    written,          \* history: the paths written, in the order of the writes
    parked            \* the locals of the map_to_batch worker that is not running

splitv == <<nraw, t, cuts, tokenized, lengths>>
packv == <<indexed_lengths, pk, bins, bin_space>>
buildv == <<bi, out_input_ids, out_position_ids, slice_counter>>
restv == <<all_files, file, input_buffer, pos_buffer, buffer_length, counter,
           consumed, removed>>
vars == <<ds, pc, idx0, ncall, files, splitv, packv, buildv, restv, written, parked>>

----------------------------------------------------------------------------
\* Helpers for Python lists.

MaxOf(S) == CHOOSE x \in S : \A y \in S : y <= x

\* t[a:b] for 0 <= a, clipped to the list as Python clips a slice.
Slice(s, a, b) == SubSeq(s, a + 1, IF b < Len(s) THEN b ELSE Len(s))

RECURSIVE Concat(_)
Concat(ss) == IF ss = <<>> THEN <<>> ELSE Head(ss) \o Concat(Tail(ss))

RECURSIVE SumSeq(_)
SumSeq(s) == IF s = <<>> THEN 0 ELSE Head(s) + SumSeq(Tail(s))

\* list(range(n))
Range(n) == [i \in 1..n |-> i - 1]

\* F.pad(x, (0, n), value=v)
Pad(s, n, v) == s \o [i \in 1..n |-> v]

\* Every token list of at most MaxTokens tokens.
RawTexts == UNION {[1..n -> {word_token_id, split_value}] : n \in 0..MaxTokens}

----------------------------------------------------------------------------
\* The splitter (lines 35-50).

\* np.argwhere(np.array(t) == split_value): the positions holding "."
dot_pos(s) == {p \in 0..(Len(s) - 1) : s[p + 1] = split_value}

\* split_pos with the test dot_pos <= BLOCK_SIZE - 1.
mutSplitPos(s) == MaxOf({IF p <= BLOCK_SIZE - 1 THEN p ELSE 0 : p \in dot_pos(s)})

\* np.max((dot_pos < (BLOCK_SIZE - 1)) * dot_pos): a position at or beyond
\* the limit is multiplied by False and counts as 0.
split_pos(s) == MaxOf({IF p < BLOCK_SIZE - 1 THEN p ELSE 0 : p \in dot_pos(s)})

\* InsertDesc that puts a pair before the pairs of the same length.
mutInsertDesc(sorted, x) ==
    LET n == Cardinality({j \in 1..Len(sorted) : sorted[j][1] > x[1]})
    IN  SubSeq(sorted, 1, n) \o <<x>> \o SubSeq(sorted, n + 1, Len(sorted))

\* sorted([(l, i) for i, l in enumerate(lengths)], key=lambda x: x[0],
\* reverse=True): Python's sort is stable, also with reverse=True.
InsertDesc(sorted, x) ==
    LET n == Cardinality({j \in 1..Len(sorted) : sorted[j][1] >= x[1]})
    IN  SubSeq(sorted, 1, n) \o <<x>> \o SubSeq(sorted, n + 1, Len(sorted))

RECURSIVE SortDesc(_)
SortDesc(pairs) ==
    IF pairs = <<>> THEN <<>>
    ELSE InsertDesc(SortDesc(SubSeq(pairs, 1, Len(pairs) - 1)), pairs[Len(pairs)])

Enumerate(ls) == [i \in 1..Len(ls) |-> <<ls[i], i - 1>>]

\* NumberedPath without the batch's first index.
mutNumberedPath(id, c) == <<"train", ToString(c), "safetensor.snappy">>

\* f"{data_path}/train_{idx[0]}_{slice_counter}_safetensor.snappy", as the
\* components of the file name.
NumberedPath(id, c) == <<"train", ToString(id), ToString(c), "safetensor.snappy">>
RestPath(id) == <<"train", ToString(id), "rest", "safetensor.snappy">>

\* ForShort with the test len(t) <= BLOCK_SIZE.
mutForShort ==
    /\ pc = "for"
    /\ nraw < MaxBatch
    /\ \E txt \in ds :
         /\ Len(txt) <= BLOCK_SIZE
         /\ t' = txt
         /\ tokenized' = Append(tokenized, txt \o <<eos_token_id>>)
         /\ lengths' = Append(lengths, Len(txt) + 1)
    /\ nraw' = nraw + 1
    /\ cuts' = <<>>
    /\ UNCHANGED <<ds, parked, written, pc, idx0, ncall, files, packv, buildv, restv>>

\* for t in raw_tokenized, a text of at most BLOCK_SIZE - 1 tokens.
ForShort ==
    /\ pc = "for"
    /\ nraw < MaxBatch
    /\ \E txt \in ds :
         /\ Len(txt) <= BLOCK_SIZE - 1
         /\ t' = txt
         /\ tokenized' = Append(tokenized, txt \o <<eos_token_id>>)
         /\ lengths' = Append(lengths, Len(txt) + 1)
    /\ nraw' = nraw + 1
    /\ cuts' = <<>>
    /\ UNCHANGED <<ds, parked, written, pc, idx0, ncall, files, packv, buildv, restv>>

\* for t in raw_tokenized, a longer text: enter the while loop.
ForLong ==
    /\ pc = "for"
    /\ nraw < MaxBatch
    /\ \E txt \in ds :
         /\ Len(txt) > BLOCK_SIZE - 1
         /\ t' = txt
    /\ nraw' = nraw + 1
    /\ cuts' = <<>>
    /\ pc' = "while"
    /\ UNCHANGED <<ds, parked, written, idx0, ncall, files, tokenized, lengths, packv, buildv, restv>>

\* WhileCut with the remainder taken from split_pos on.
mutWhileCut ==
    /\ pc = "while"
    /\ Len(t) > BLOCK_SIZE - 1
    /\ dot_pos(t) # {}
    /\ LET sp == split_pos(t) IN
         /\ tokenized' = Append(tokenized, Slice(t, 0, sp) \o <<eos_token_id>>)
         /\ lengths' = Append(lengths, sp + 1)
         /\ t' = Slice(t, sp, Len(t))
         /\ cuts' = Append(cuts, [rem |-> t, pos |-> sp])
    /\ UNCHANGED <<ds, parked, written, pc, idx0, ncall, files, nraw, packv, buildv, restv>>

\* One iteration of the while loop that cuts (lines 44-50).
WhileCut ==
    /\ pc = "while"
    /\ Len(t) > BLOCK_SIZE - 1
    /\ dot_pos(t) # {}
    /\ LET sp == split_pos(t) IN
         /\ tokenized' = Append(tokenized, Slice(t, 0, sp) \o <<eos_token_id>>)
         /\ lengths' = Append(lengths, sp + 1)
         /\ t' = Slice(t, sp + 1, Len(t))
         /\ cuts' = Append(cuts, [rem |-> t, pos |-> sp])
    /\ UNCHANGED <<ds, parked, written, pc, idx0, ncall, files, nraw, packv, buildv, restv>>

\* dot_pos.size == 0: break. Nothing is appended for the remainder.
WhileBreak ==
    /\ pc = "while"
    /\ Len(t) > BLOCK_SIZE - 1
    /\ dot_pos(t) = {}
    /\ pc' = "for"
    /\ cuts' = <<>>
    /\ UNCHANGED <<ds, parked, written, idx0, ncall, files, nraw, t, tokenized, lengths, packv, buildv,
                   restv>>

\* The while condition fails: the loop ends and the for loop goes on.
\* Nothing is appended for the remainder of at most BLOCK_SIZE - 1 tokens.
WhileExit ==
    /\ pc = "while"
    /\ Len(t) <= BLOCK_SIZE - 1
    /\ pc' = "for"
    /\ cuts' = <<>>
    /\ UNCHANGED <<ds, parked, written, idx0, ncall, files, nraw, t, tokenized, lengths, packv, buildv,
                   restv>>

----------------------------------------------------------------------------
\* The packer (lines 52-75).

\* The for loop over raw_tokenized is over: sort, and start with no bins.
\* t is not read again and is cleared.
SortLengths ==
    /\ pc = "for"
    /\ nraw >= 1
    /\ indexed_lengths' = SortDesc(Enumerate(lengths))
    /\ bins' = <<>>
    /\ bin_space' = <<>>
    /\ pk' = 0
    /\ t' = <<>>
    /\ pc' = "pack"
    /\ UNCHANGED <<ds, parked, written, idx0, ncall, files, nraw, cuts, tokenized, lengths, buildv, restv>>

\* Fits with the test bin_space[i] > length.
mutFitsStrict(space, length) == {i \in 1..Len(space) : space[i] > length}

\* Fits with the capacity check off by one.
mutFits(space, length) == {i \in 1..Len(space) : space[i] >= length - 1}

\* The bins the inner loop may stop at: bin_space[i] >= length.
Fits(space, length) == {i \in 1..Len(space) : space[i] >= length}

\* PackPlace without the break: the pair is appended to every bin with room.
mutPackPlace ==
    /\ pc = "pack"
    /\ pk < Len(indexed_lengths)
    /\ LET length == indexed_lengths[pk + 1][1]
           F == Fits(bin_space, length)
       IN  /\ F # {}
           /\ bins' = [i \in 1..Len(bins) |->
                         IF i \in F THEN Append(bins[i], indexed_lengths[pk + 1])
                         ELSE bins[i]]
           /\ bin_space' = [i \in 1..Len(bins) |->
                              IF i \in F THEN bin_space[i] - length ELSE bin_space[i]]
    /\ pk' = pk + 1
    /\ UNCHANGED <<ds, parked, written, pc, idx0, ncall, files, splitv, indexed_lengths, buildv, restv>>

\* The inner loop breaks at the first bin with room.
PackPlace ==
    /\ pc = "pack"
    /\ pk < Len(indexed_lengths)
    /\ LET length == indexed_lengths[pk + 1][1]
           F == Fits(bin_space, length)
       IN  /\ F # {}
           /\ LET i == CHOOSE j \in F : \A k \in F : j <= k IN
                /\ bins' = [bins EXCEPT ![i] = Append(@, indexed_lengths[pk + 1])]
                /\ bin_space' = [bin_space EXCEPT ![i] = @ - length]
    /\ pk' = pk + 1
    /\ UNCHANGED <<ds, parked, written, pc, idx0, ncall, files, splitv, indexed_lengths, buildv, restv>>

\* not placed: a new bin.
PackOpen ==
    /\ pc = "pack"
    /\ pk < Len(indexed_lengths)
    /\ LET length == indexed_lengths[pk + 1][1] IN
         /\ Fits(bin_space, length) = {}
         /\ bins' = Append(bins, <<indexed_lengths[pk + 1]>>)
         /\ bin_space' = Append(bin_space, BLOCK_SIZE - length)
    /\ pk' = pk + 1
    /\ UNCHANGED <<ds, parked, written, pc, idx0, ncall, files, splitv, indexed_lengths, buildv, restv>>

\* The packing loop is over (lines 78-80).
PackDone ==
    /\ pc = "pack"
    /\ pk = Len(indexed_lengths)
    /\ out_input_ids' = <<>>
    /\ out_position_ids' = <<>>
    /\ slice_counter' = 0
    /\ bi' = 0
    /\ pc' = "build"
    /\ UNCHANGED <<ds, parked, written, idx0, ncall, files, splitv, packv, restv>>

----------------------------------------------------------------------------
\* Tensor construction and shard writing (lines 82-136).

\* combined_pos that counts on over the whole bin.
mutCombinedPos(bin) == Range(SumSeq([m \in 1..Len(bin) |-> bin[m][1]]))

\* combined_ids and combined_pos of one bin (lines 83-94).

combined_ids(toks, bin) == Concat([m \in 1..Len(bin) |-> toks[bin[m][2] + 1]])
combined_pos(bin) == Concat([m \in 1..Len(bin) |-> Range(bin[m][1])])

\* Lines 103-109: both rows are padded by the pad_len of the token row.
pad_len(ids) == BLOCK_SIZE - Len(ids)
ids_tensor(toks, bin) ==
    LET ids == combined_ids(toks, bin)
    IN  IF pad_len(ids) > 0 THEN Pad(ids, pad_len(ids), eos_token_id) ELSE ids
pos_tensor(toks, bin) ==
    LET ids == combined_ids(toks, bin)
    IN  IF pad_len(ids) > 0 THEN Pad(combined_pos(bin), pad_len(ids), 0)
        ELSE combined_pos(bin)

\* snappy_safetensor(tensor_dict, file_path): the file is created or replaced.
WriteFile(fs, path, ids, pos) ==
    [p \in DOMAIN fs \cup {path} |->
        IF p = path THEN [input_ids |-> ids, position_ids |-> pos] ELSE fs[p]]

\* torch.stack(rows) raises unless every row has the same shape.
Stackable(rows) == \A a, b \in 1..Len(rows) : Len(rows[a]) = Len(rows[b])

\* BuildKeep that also keeps the Block that fills the buffer.
mutBuildKeep ==
    /\ pc = "build"
    /\ bi < Len(bins)
    /\ out_input_ids' = Append(out_input_ids, ids_tensor(tokenized, bins[bi + 1]))
    /\ out_position_ids' = Append(out_position_ids, pos_tensor(tokenized, bins[bi + 1]))
    /\ bi' = bi + 1
    /\ UNCHANGED <<ds, parked, written, pc, idx0, ncall, files, splitv, packv, slice_counter, restv>>

\* One bin becomes a Block; the buffer stays below SLICE_SIZE.
BuildKeep ==
    /\ pc = "build"
    /\ bi < Len(bins)
    /\ Len(out_input_ids) + 1 # SLICE_SIZE
    /\ out_input_ids' = Append(out_input_ids, ids_tensor(tokenized, bins[bi + 1]))
    /\ out_position_ids' = Append(out_position_ids, pos_tensor(tokenized, bins[bi + 1]))
    /\ bi' = bi + 1
    /\ UNCHANGED <<ds, parked, written, pc, idx0, ncall, files, splitv, packv, slice_counter, restv>>

\* One bin becomes a Block and fills the buffer: a numbered shard is written.
BuildFlush ==
    /\ pc = "build"
    /\ bi < Len(bins)
    /\ Len(out_input_ids) + 1 = SLICE_SIZE
    /\ Stackable(Append(out_input_ids, ids_tensor(tokenized, bins[bi + 1])))
    /\ Stackable(Append(out_position_ids, pos_tensor(tokenized, bins[bi + 1])))
    /\ files' = WriteFile(files, NumberedPath(idx0, slice_counter),
                          Append(out_input_ids, ids_tensor(tokenized, bins[bi + 1])),
                          Append(out_position_ids, pos_tensor(tokenized, bins[bi + 1])))
    /\ written' = Append(written, NumberedPath(idx0, slice_counter))
    /\ out_input_ids' = <<>>
    /\ out_position_ids' = <<>>
    /\ slice_counter' = slice_counter + 1
    /\ bi' = bi + 1
    /\ UNCHANGED <<ds, parked, pc, idx0, ncall, splitv, packv, restv>>

\* After the loop: the Blocks left in the buffer go to the rest shard.
WriteRest ==
    /\ pc = "build"
    /\ bi = Len(bins)
    /\ Len(out_input_ids) > 0
    /\ Stackable(out_input_ids)
    /\ Stackable(out_position_ids)
    /\ files' = WriteFile(files, RestPath(idx0), out_input_ids, out_position_ids)
    /\ written' = Append(written, RestPath(idx0))
    /\ pc' = "ret"
    /\ UNCHANGED <<ds, parked, idx0, ncall, splitv, packv, buildv, restv>>

\* After the loop with an empty buffer: no rest shard.
NoRest ==
    /\ pc = "build"
    /\ bi = Len(bins)
    /\ Len(out_input_ids) = 0
    /\ pc' = "ret"
    /\ UNCHANGED <<ds, parked, written, idx0, ncall, files, splitv, packv, buildv, restv>>

\* torch.stack raises at line 118 or 132: the rows to be written differ in
\* shape, map_to_batch ends with the exception and nothing is written.  The
\* rows the splitter's pieces give all have BLOCK_SIZE entries, so this
\* happens only to a batch the splitter did not make.
StackError ==
    /\ pc = "build"
    /\ LET last == bi < Len(bins)
           ids == IF last THEN Append(out_input_ids, ids_tensor(tokenized, bins[bi + 1]))
                  ELSE out_input_ids
           pos == IF last THEN Append(out_position_ids, pos_tensor(tokenized, bins[bi + 1]))
                  ELSE out_position_ids
           due == IF last THEN Len(ids) = SLICE_SIZE ELSE Len(ids) > 0
       IN  due /\ ~(Stackable(ids) /\ Stackable(pos))
    /\ pc' = "error"
    /\ UNCHANGED <<ds, parked, written, idx0, ncall, files, splitv, packv, buildv, restv>>

\* The packing and construction stages alone (lines 53-136).
PackStep ==
    \/ SortLengths \/ PackPlace \/ PackOpen \/ PackDone
    \/ BuildKeep \/ BuildFlush \/ WriteRest \/ NoRest \/ StackError

MapStep ==
    \/ ForShort \/ ForLong \/ WhileCut \/ WhileBreak \/ WhileExit
    \/ SortLengths \/ PackPlace \/ PackOpen \/ PackDone
    \/ BuildKeep \/ BuildFlush \/ WriteRest \/ NoRest

----------------------------------------------------------------------------
\* process_rest (lines 138-190).

\* f"{data_path}/train_{counter}_safetensor.snappy"
ReslicedPath(c) == <<"train", ToString(c), "safetensor.snappy">>

\* Remove(fs, path): os.remove(path)
Remove(fs, path) == [p \in DOMAIN fs \ {path} |-> fs[p]]

\* RestPop that reads the last path and leaves it in the list.
mutRestPopPeek ==
    /\ pc = "loop"
    /\ Len(all_files) > 0
    /\ LET f == all_files[Len(all_files)] IN
         /\ f \in DOMAIN files
         /\ file' = f
         /\ input_buffer' = Append(input_buffer, files[f].input_ids)
         /\ pos_buffer' = Append(pos_buffer, files[f].position_ids)
         /\ buffer_length' = buffer_length + Len(files[f].input_ids)
         /\ consumed' = WriteFile(consumed, f, files[f].input_ids, files[f].position_ids)
    /\ pc' = "inner"
    /\ UNCHANGED <<ds, parked, written, idx0, ncall, files, splitv, packv, buildv,
                   all_files, counter, removed>>

\* RestPop that counts the shard read as one Block.
mutRestPop ==
    /\ pc = "loop"
    /\ Len(all_files) > 0
    /\ LET f == all_files[Len(all_files)] IN
         /\ f \in DOMAIN files
         /\ file' = f
         /\ all_files' = SubSeq(all_files, 1, Len(all_files) - 1)
         /\ input_buffer' = Append(input_buffer, files[f].input_ids)
         /\ pos_buffer' = Append(pos_buffer, files[f].position_ids)
         /\ buffer_length' = buffer_length + 1
         /\ consumed' = WriteFile(consumed, f, files[f].input_ids, files[f].position_ids)
    /\ pc' = "inner"
    /\ UNCHANGED <<ds, parked, written, idx0, ncall, files, splitv, packv, buildv, counter, removed>>

\* Lines 146-159: pop the last path, read the shard, append it to the buffer.
RestPop ==
    /\ pc = "loop"
    /\ Len(all_files) > 0
    /\ LET f == all_files[Len(all_files)] IN
         /\ f \in DOMAIN files
         /\ file' = f
         /\ all_files' = SubSeq(all_files, 1, Len(all_files) - 1)
         /\ input_buffer' = Append(input_buffer, files[f].input_ids)
         /\ pos_buffer' = Append(pos_buffer, files[f].position_ids)
         /\ buffer_length' = buffer_length + Len(files[f].input_ids)
         /\ consumed' = WriteFile(consumed, f, files[f].input_ids, files[f].position_ids)
    /\ pc' = "inner"
    /\ UNCHANGED <<ds, parked, written, idx0, ncall, files, splitv, packv, buildv, counter, removed>>

\* RestEmit with the remainder taken from SLICE_SIZE + 1 on.
mutRestEmit ==
    /\ pc = "inner"
    /\ buffer_length >= SLICE_SIZE
    /\ LET full_input == Concat(input_buffer)
           full_pos == Concat(pos_buffer)
       IN  /\ files' = WriteFile(files, ReslicedPath(counter),
                                 Slice(full_input, 0, SLICE_SIZE),
                                 Slice(full_pos, 0, SLICE_SIZE))
           /\ input_buffer' = <<Slice(full_input, SLICE_SIZE + 1, Len(full_input))>>
           /\ pos_buffer' = <<Slice(full_pos, SLICE_SIZE + 1, Len(full_pos))>>
           /\ buffer_length' = Len(Slice(full_input, SLICE_SIZE + 1, Len(full_input)))
    /\ written' = Append(written, ReslicedPath(counter))
    /\ counter' = counter + 1
    /\ UNCHANGED <<ds, parked, pc, idx0, ncall, splitv, packv, buildv, all_files, file,
                   consumed, removed>>

\* Lines 162-189: one iteration of the inner loop writes one shard of the
\* first SLICE_SIZE Blocks and keeps the others.
RestEmit ==
    /\ pc = "inner"
    /\ buffer_length >= SLICE_SIZE
    /\ LET full_input == Concat(input_buffer)
           full_pos == Concat(pos_buffer)
       IN  /\ files' = WriteFile(files, ReslicedPath(counter),
                                 Slice(full_input, 0, SLICE_SIZE),
                                 Slice(full_pos, 0, SLICE_SIZE))
           /\ input_buffer' = <<Slice(full_input, SLICE_SIZE, Len(full_input))>>
           /\ pos_buffer' = <<Slice(full_pos, SLICE_SIZE, Len(full_pos))>>
           /\ buffer_length' = Len(Slice(full_input, SLICE_SIZE, Len(full_input)))
    /\ written' = Append(written, ReslicedPath(counter))
    /\ counter' = counter + 1
    /\ UNCHANGED <<ds, parked, pc, idx0, ncall, splitv, packv, buildv, all_files, file,
                   consumed, removed>>

\* RestRemove that does not wait for the inner loop to end.
mutRestRemove ==
    /\ pc = "inner"
    /\ file \in DOMAIN files
    /\ files' = Remove(files, file)
    /\ removed' = removed \cup {file}
    /\ pc' = "loop"
    /\ UNCHANGED <<ds, parked, written, idx0, ncall, splitv, packv, buildv, all_files, file,
                   input_buffer, pos_buffer, buffer_length, counter, consumed>>

\* Line 190: the inner loop is over, the shard just read is deleted.
RestRemove ==
    /\ pc = "inner"
    /\ buffer_length < SLICE_SIZE
    /\ file \in DOMAIN files
    /\ files' = Remove(files, file)
    /\ removed' = removed \cup {file}
    /\ pc' = "loop"
    /\ UNCHANGED <<ds, parked, written, idx0, ncall, splitv, packv, buildv, all_files, file,
                   input_buffer, pos_buffer, buffer_length, counter, consumed>>

\* RestReturn that writes what the buffer holds to one more shard.
mutRestReturn ==
    /\ pc = "loop"
    /\ Len(all_files) = 0
    /\ files' = IF buffer_length > 0
                THEN WriteFile(files, ReslicedPath(counter),
                               Concat(input_buffer), Concat(pos_buffer))
                ELSE files
    /\ written' = IF buffer_length > 0 THEN Append(written, ReslicedPath(counter))
                  ELSE written
    /\ pc' = "done"
    /\ UNCHANGED <<ds, parked, idx0, ncall, splitv, packv, buildv, restv>>

\* len(all_files) == 0: process_rest returns; what the buffer holds is dropped.
RestReturn ==
    /\ pc = "loop"
    /\ Len(all_files) = 0
    /\ pc' = "done"
    /\ UNCHANGED <<ds, parked, written, idx0, ncall, files, splitv, packv, buildv, restv>>

RestStep == RestPop \/ RestEmit \/ RestRemove \/ RestReturn

----------------------------------------------------------------------------
\* __main__ (lines 192-197).

\* "rest" in f
IsRest(path) == \E i \in 1..Len(path) : path[i] = "rest"

Perms(S) == {f \in [1..Cardinality(S) -> S] : \A i, j \in 1..Cardinality(S) :
                                                   f[i] = f[j] => i = j}

\* The locals of a call that has not started or has returned.
NoLocals ==
    /\ nraw' = 0
    /\ t' = <<>>
    /\ cuts' = <<>>
    /\ tokenized' = <<>>
    /\ lengths' = <<>>
    /\ indexed_lengths' = <<>>
    /\ pk' = 0
    /\ bins' = <<>>
    /\ bin_space' = <<>>
    /\ bi' = 0
    /\ out_input_ids' = <<>>
    /\ out_position_ids' = <<>>
    /\ slice_counter' = 0

\* ds.map calls map_to_batch on the next batch: its indices follow those of
\* the batch before.
NextBatch ==
    /\ pc = "ret"
    /\ ncall < MaxCalls
    /\ ncall' = ncall + 1
    /\ idx0' = idx0 + nraw
    /\ NoLocals
    /\ pc' = "for"
    /\ UNCHANGED <<ds, parked, written, files, restv>>

\* The locals of the running map_to_batch worker.
WorkerLocals ==
    [pc |-> pc, idx0 |-> idx0, nraw |-> nraw, t |-> t, cuts |-> cuts,
     tokenized |-> tokenized, lengths |-> lengths,
     indexed_lengths |-> indexed_lengths, pk |-> pk, bins |-> bins,
     bin_space |-> bin_space, bi |-> bi, out_input_ids |-> out_input_ids,
     out_position_ids |-> out_position_ids, slice_counter |-> slice_counter]

\* The locals of a worker about to run map_to_batch(batch, idx) with idx[0] = id.
FreshWorker(id) ==
    [pc |-> "for", idx0 |-> id, nraw |-> 0, t |-> <<>>, cuts |-> <<>>,
     tokenized |-> <<>>, lengths |-> <<>>, indexed_lengths |-> <<>>, pk |-> 0,
     bins |-> <<>>, bin_space |-> <<>>, bi |-> 0, out_input_ids |-> <<>>,
     out_position_ids |-> <<>>, slice_counter |-> 0]

\* num_proc > 1: the operating system runs the other worker; the one that
\* was running keeps its locals.  A worker that has returned is not run again.
Switch ==
    /\ pc \in {"for", "while", "pack", "build", "ret"}
    /\ parked.pc \in {"for", "while", "pack", "build"}
    /\ parked' = WorkerLocals
    /\ pc' = parked.pc
    /\ idx0' = parked.idx0
    /\ nraw' = parked.nraw
    /\ t' = parked.t
    /\ cuts' = parked.cuts
    /\ tokenized' = parked.tokenized
    /\ lengths' = parked.lengths
    /\ indexed_lengths' = parked.indexed_lengths
    /\ pk' = parked.pk
    /\ bins' = parked.bins
    /\ bin_space' = parked.bin_space
    /\ bi' = parked.bi
    /\ out_input_ids' = parked.out_input_ids
    /\ out_position_ids' = parked.out_position_ids
    /\ slice_counter' = parked.slice_counter
    /\ UNCHANGED <<ds, written, ncall, files, restv>>

\* The batches are over: process_rest is called on the paths holding "rest",
\* in the order os.listdir returns them.
CallRest ==
    /\ pc = "ret"
    /\ all_files' \in Perms({p \in DOMAIN files : IsRest(p)})
    /\ input_buffer' = <<>>
    /\ pos_buffer' = <<>>
    /\ buffer_length' = 0
    /\ counter' = 0
    /\ NoLocals
    /\ pc' = "loop"
    /\ UNCHANGED <<ds, parked, written, idx0, ncall, files, file, consumed, removed>>

\* ds.map has returned when both workers have: then process_rest is called.
ParCallRest ==
    /\ parked.pc = "ret"
    /\ CallRest

ParNext == MapStep \/ Switch \/ ParCallRest \/ RestStep

Next == MapStep \/ NextBatch \/ CallRest \/ RestStep

----------------------------------------------------------------------------
\* Initial states.

\* No second worker.
NoWorker == [pc |-> "none"]

NoFiles == [p \in {} |-> <<>>]
NoFile == <<>>

InitLocals ==
    /\ nraw = 0
    /\ t = <<>>
    /\ cuts = <<>>
    /\ tokenized = <<>>
    /\ lengths = <<>>
    /\ indexed_lengths = <<>>
    /\ pk = 0
    /\ bins = <<>>
    /\ bin_space = <<>>
    /\ bi = 0
    /\ out_input_ids = <<>>
    /\ out_position_ids = <<>>
    /\ slice_counter = 0

InitRestLocals ==
    /\ all_files = <<>>
    /\ file = NoFile
    /\ input_buffer = <<>>
    /\ pos_buffer = <<>>
    /\ buffer_length = 0
    /\ counter = 0
    /\ consumed = NoFiles
    /\ removed = {}

\* The texts of the whole run: an empty text, a text that is cut once, and
\* a text with no boundary token.
PipelineTexts ==
    { <<>>,
      [i \in 1..(BLOCK_SIZE + 1) |-> IF i = 2 THEN split_value ELSE word_token_id],
      [i \in 1..BLOCK_SIZE |-> word_token_id] }

\* The whole run: the first map_to_batch call starts on an empty directory.
Init ==
    /\ ds = PipelineTexts
    /\ pc = "for"
    /\ idx0 = 0
    /\ ncall = 1
    /\ files = NoFiles
    /\ InitLocals
    /\ InitRestLocals
    /\ written = <<>>
    /\ parked = NoWorker

Spec == Init /\ [][Next]_vars

\* Two workers, each with one batch: the batches start at indices 0 and
\* MaxBatch.
InitPar ==
    /\ ds = PipelineTexts
    /\ pc = "for"
    /\ idx0 = 0
    /\ ncall = 2
    /\ files = NoFiles
    /\ InitLocals
    /\ InitRestLocals
    /\ written = <<>>
    /\ parked = FreshWorker(MaxBatch)

SpecPar == InitPar /\ [][ParNext]_vars

\* One call map_to_batch(batch, idx) on any batch of at most MaxBatch texts
\* of at most MaxTokens tokens.
InitMap ==
    /\ ds = RawTexts
    /\ pc = "for"
    /\ idx0 = 0
    /\ ncall = 1
    /\ files = NoFiles
    /\ InitLocals
    /\ InitRestLocals
    /\ written = <<>>
    /\ parked = NoWorker

SpecMap == InitMap /\ [][MapStep]_vars

\* A sub-sequence of n tokens ending with the terminator.
PieceOfLength(n) == [i \in 1..n |-> IF i = n THEN eos_token_id ELSE word_token_id]

\* The packing stage entered with any list of at most MaxBatch sub-sequences
\* of 1..BLOCK_SIZE + 1 tokens: the lists the splitter gives, and lists with
\* a sub-sequence one token longer than a Block.
InitPack ==
    /\ ds = {}
    /\ pc = "for"
    /\ idx0 = 0
    /\ ncall = 1
    /\ files = NoFiles
    /\ \E ls \in UNION {[1..n -> 1..(BLOCK_SIZE + 1)] : n \in 1..MaxBatch} :
         /\ lengths = ls
         /\ tokenized = [i \in 1..Len(ls) |-> PieceOfLength(ls[i])]
         /\ nraw = Len(ls)
    /\ t = <<>>
    /\ cuts = <<>>
    /\ indexed_lengths = <<>>
    /\ pk = 0
    /\ bins = <<>>
    /\ bin_space = <<>>
    /\ bi = 0
    /\ out_input_ids = <<>>
    /\ out_position_ids = <<>>
    /\ slice_counter = 0
    /\ InitRestLocals
    /\ written = <<>>
    /\ parked = NoWorker

SpecPack == InitPack /\ [][PackStep]_vars

\* Row j of leftover shard k: Blocks that differ from each other.
LeftoverIds(k, j) ==
    [i \in 1..BLOCK_SIZE |-> IF i = 1 THEN k ELSE IF i = 2 THEN j ELSE eos_token_id]
LeftoverPos(k, j) == [i \in 1..BLOCK_SIZE |-> IF i <= 3 THEN i - 1 ELSE 0]

\* The directory of leftover shards 1..Len(size), shard k of size[k] Blocks.
LeftoverDir(size) ==
    [p \in {RestPath(k) : k \in 1..Len(size)} |->
        LET k == CHOOSE k \in 1..Len(size) : RestPath(k) = p IN
          [input_ids |-> [j \in 1..size[k] |-> LeftoverIds(k, j)],
           position_ids |-> [j \in 1..size[k] |-> LeftoverPos(k, j)]]]

\* The directories of at most MaxFiles leftover shards of 1..MaxShardBlocks
\* Blocks each.
LeftoverDirs ==
    {LeftoverDir(size) : size \in UNION {[1..n -> 1..MaxShardBlocks] : n \in 0..MaxFiles}}

\* One call process_rest(all_files) on the shards of a directory, in any order.
InitRest ==
    /\ ds = {}
    /\ pc = "loop"
    /\ idx0 = 0
    /\ ncall = 0
    /\ files \in LeftoverDirs
    /\ InitLocals
    /\ all_files \in Perms(DOMAIN files)
    /\ file = NoFile
    /\ input_buffer = <<>>
    /\ pos_buffer = <<>>
    /\ buffer_length = 0
    /\ counter = 0
    /\ consumed = NoFiles
    /\ removed = {}
    /\ written = <<>>
    /\ parked = NoWorker

SpecRest == InitRest /\ [][RestStep]_vars

\* process_rest is one thread that no one suspends for ever: while it has a
\* step to take it takes one.
SpecRestFair == InitRest /\ [][RestStep]_vars /\ WF_vars(RestStep)

\* The steps of the while loop (lines 43-50).
WhileStep == WhileCut \/ WhileBreak \/ WhileExit

\* map_to_batch is one thread that no one suspends for ever: while the while
\* loop has a step to take, it takes one.
SpecMapFair == InitMap /\ [][MapStep]_vars /\ WF_vars(WhileStep)

----------------------------------------------------------------------------
\* Properties of the packing loop.

\* The occupied length of a bin: the sum of its members' recorded lengths.
Occupied(bin) == SumSeq([m \in 1..Len(bin) |-> bin[m][1]])

\* C1: at every step of the packing loop and after it, no bin's free capacity
\* is negative and no bin holds more than BLOCK_SIZE tokens, counted by the
\* recorded lengths and by the tokens of its members.
C1_BlockCapacity ==
    /\ Len(bin_space) = Len(bins)
    /\ \A i \in 1..Len(bins) :
         /\ bin_space[i] >= 0
         /\ Occupied(bins[i]) <= BLOCK_SIZE
         /\ Len(combined_ids(tokenized, bins[i])) <= BLOCK_SIZE

\* A bin of two or more members that is exactly full.
C1_Witness ==
    /\ pc = "build"
    /\ \E i \in 1..Len(bins) :
         /\ Len(bins[i]) >= 2
         /\ Occupied(bins[i]) = BLOCK_SIZE
         /\ bin_space[i] = 0

\* The (bin, slot) places that hold index i.
PlacesOf(i) ==
    {bm \in (1..Len(bins)) \X (1..Len(lengths)) :
        /\ bm[2] <= Len(bins[bm[1]])
        /\ bins[bm[1]][bm[2]][2] = i}

\* C2: after the packing loop every index of the splitter's output is a
\* member of exactly one bin, once, with its recorded length; the bins hold
\* nothing else and are at most as many as the sub-sequences.
C2_PackingBijection ==
    pc \in {"build", "ret"} =>
        /\ \A i \in 0..(Len(lengths) - 1) :
             /\ Cardinality(PlacesOf(i)) = 1
             /\ \A bm \in PlacesOf(i) : bins[bm[1]][bm[2]][1] = lengths[i + 1]
        /\ \A b \in 1..Len(bins) :
             /\ Len(bins[b]) >= 1
             /\ \A m \in 1..Len(bins[b]) : bins[b][m][2] \in 0..(Len(lengths) - 1)
        /\ Len(bins) <= Len(lengths)

\* Four sub-sequences packed into fewer bins.
C2_Witness ==
    /\ pc = "build"
    /\ Len(lengths) >= 4
    /\ Len(bins) >= 2
    /\ Len(bins) < Len(lengths)

----------------------------------------------------------------------------
\* Properties of the splitter.

\* C9: every emitted sub-sequence has at most BLOCK_SIZE tokens, its
\* terminator included, and its recorded length is its token count.
C9_PieceLengths ==
    /\ Len(lengths) = Len(tokenized)
    /\ \A i \in 1..Len(tokenized) :
         /\ Len(tokenized[i]) <= BLOCK_SIZE
         /\ lengths[i] = Len(tokenized[i])
         /\ tokenized[i][Len(tokenized[i])] = eos_token_id

\* A short text of BLOCK_SIZE - 1 tokens followed by a cut piece.
C9_Witness ==
    /\ pc = "while"
    /\ Len(cuts) = 1
    /\ Len(tokenized) = 2
    /\ Len(tokenized[1]) = BLOCK_SIZE
    /\ lengths[2] = cuts[1].pos + 1
    /\ lengths[2] >= 2

\* The boundary positions of a remainder strictly before BLOCK_SIZE - 1.
DotsBelowLimit(rem) == {p \in dot_pos(rem) : p < BLOCK_SIZE - 1}

\* The boundary positions of a remainder at or before BLOCK_SIZE - 1.
DotsUpToLimit(rem) == {p \in dot_pos(rem) : p <= BLOCK_SIZE - 1}

\* C7: a remainder with no boundary token at or before position
\* BLOCK_SIZE - 1 is never cut: nothing more is emitted from it, whether or
\* not it has boundary tokens further on.
C7_NoCutWithoutBoundary ==
    \A i \in 1..Len(cuts) : DotsUpToLimit(cuts[i].rem) # {}

\* C8: when the while loop ends on a text whose every cut found a boundary
\* token before the limit, the remainder of at most BLOCK_SIZE - 1 tokens is
\* emitted with a terminator appended.
C8_FinalRemainderEmitted ==
    [][(/\ pc = "while"
        /\ Len(t) <= BLOCK_SIZE - 1
        /\ Len(t) >= 1
        /\ cuts # <<>>
        /\ \A i \in 1..Len(cuts) : DotsBelowLimit(cuts[i].rem) # {})
       => /\ Len(tokenized') = Len(tokenized) + 1
          /\ tokenized'[Len(tokenized')] = t \o <<eos_token_id>>]_vars

----------------------------------------------------------------------------
\* Properties of the shard directory and of process_rest.

\* C3: every shard that is not a rest shard holds exactly SLICE_SIZE Blocks,
\* every rest shard holds between 1 and SLICE_SIZE - 1.
C3_ShardSizes ==
    \A p \in DOMAIN files :
        LET n == Len(files[p].input_ids) IN
          /\ Len(files[p].position_ids) = n
          /\ IF IsRest(p) THEN 1 <= n /\ n <= SLICE_SIZE - 1 ELSE n = SLICE_SIZE

\* A numbered shard, a rest shard and a shard of process_rest side by side.
C3_Witness ==
    /\ \E p \in DOMAIN files : Len(p) = 4 /\ ~IsRest(p)
    /\ \E p \in DOMAIN files : IsRest(p)
    /\ \E p \in DOMAIN files : Len(p) = 3

\* The Blocks of a tensor_dict: row j of input_ids with row j of position_ids.
Rows(ids, pos) == [j \in 1..Len(ids) |-> <<ids[j], pos[j]>>]
RowsOf(td) == Rows(td.input_ids, td.position_ids)

\* The Blocks of the shards process_rest has written, in the order written.
OutRows == Concat([c \in 1..counter |-> RowsOf(files[ReslicedPath(c - 1)])])

\* The Blocks the rolling buffer holds.
BufRows == Rows(Concat(input_buffer), Concat(pos_buffer))

RECURSIVE BlocksIn(_, _)
BlocksIn(fs, P) ==
    IF P = {} THEN 0
    ELSE LET p == CHOOSE q \in P : TRUE
         IN  Len(fs[p].input_ids) + BlocksIn(fs, P \ {p})

Occurrences(rows, r) == Cardinality({n \in 1..Len(rows) : rows[n] = r})

\* C4: when process_rest returns, every Block read is in exactly one place
\* of the written shards and the final remainder together, and the Blocks
\* written plus the Blocks of the remainder are as many as the Blocks read.
C4_ResliceConserves ==
    pc = "done" =>
        /\ Len(OutRows) + Len(BufRows) = BlocksIn(consumed, DOMAIN consumed)
        /\ Len(BufRows) = buffer_length
        /\ \A p \in DOMAIN consumed :
             \A j \in 1..Len(consumed[p].input_ids) :
                 Occurrences(OutRows \o BufRows, RowsOf(consumed[p])[j]) = 1

\* process_rest has returned after three shards, two writes and a remainder.
C4_Witness ==
    /\ pc = "done"
    /\ Cardinality(DOMAIN consumed) = 3
    /\ counter >= 2
    /\ buffer_length >= 1

\* C5 as claimed: every Block of a deleted leftover shard is in a shard that
\* process_rest has written.
C5_DeletedBlocksPersisted ==
    \A p \in removed :
        \A j \in 1..Len(consumed[p].input_ids) :
            Occurrences(OutRows, RowsOf(consumed[p])[j]) >= 1

\* C5 amended: while process_rest runs, every Block of a deleted leftover
\* shard is in a shard it has written or in the rolling buffer, and right
\* after a deletion the buffer holds fewer than SLICE_SIZE Blocks.
C5_DeletedBlocksHeld ==
    pc \in {"loop", "inner"} =>
        /\ \A p \in removed :
             \A j \in 1..Len(consumed[p].input_ids) :
                 Occurrences(OutRows \o BufRows, RowsOf(consumed[p])[j]) = 1
        /\ (pc = "loop" /\ file \in removed) => Len(BufRows) < SLICE_SIZE

\* Right after a deletion: one Block of the deleted shard is written, another
\* is only in the buffer.
C5_Witness ==
    /\ pc = "loop"
    /\ file \in removed
    /\ \E j \in 1..Len(consumed[file].input_ids) :
         Occurrences(OutRows, RowsOf(consumed[file])[j]) = 1
    /\ \E j \in 1..Len(consumed[file].input_ids) :
         /\ Occurrences(OutRows, RowsOf(consumed[file])[j]) = 0
         /\ Occurrences(BufRows, RowsOf(consumed[file])[j]) = 1

\* C6: a shard is deleted only after it was read and the inner loop has
\* left fewer than SLICE_SIZE Blocks in the buffer; the shards still to be
\* read exist and were neither read nor deleted; a deleted shard is gone.
C6_DeleteAfterIncorporation ==
    /\ removed \subseteq DOMAIN consumed
    /\ removed \cap DOMAIN files = {}
    /\ \A i \in 1..Len(all_files) :
         /\ all_files[i] \in DOMAIN files
         /\ all_files[i] \notin DOMAIN consumed
         /\ all_files[i] \notin removed
    /\ pc = "inner" =>
         /\ file \in DOMAIN files
         /\ file \in DOMAIN consumed
         /\ file \notin removed
    /\ (pc = "loop" /\ file \in removed) => buffer_length < SLICE_SIZE

\* Right after the deletion of a shard that made the inner loop write twice,
\* with a shard still to read.
C6_Witness ==
    /\ pc = "loop"
    /\ file \in removed
    /\ counter >= 2
    /\ Len(consumed[file].input_ids) >= 2 * SLICE_SIZE
    /\ Len(all_files) >= 1

----------------------------------------------------------------------------
\* Properties of the pieces the splitter cuts.

\* The sub-sequence emitted by cut i of the current text.
PieceOf(i) == tokenized[Len(tokenized) - (Len(cuts) - i)]

\* The recorded length of that sub-sequence.
PieceLengthOf(i) == lengths[Len(lengths) - (Len(cuts) - i)]

\* The remainder the splitter went on with after cut i.
RemainderAfter(i) == IF i < Len(cuts) THEN cuts[i + 1].rem ELSE t

\* C11: a piece cut at a position that holds a boundary token ends with that
\* boundary token followed by the terminator.
C11_PieceKeepsBoundary ==
    \A i \in 1..Len(cuts) :
        cuts[i].rem[cuts[i].pos + 1] = split_value =>
            /\ Len(PieceOf(i)) >= 2
            /\ PieceOf(i)[Len(PieceOf(i)) - 1] = split_value

\* C12: a cut at position p emits the tokens at positions [0, p) followed by
\* one terminator, records the length p + 1, and goes on with the tokens
\* from position p + 1.
C12_CutShape ==
    pc = "while" =>
        \A i \in 1..Len(cuts) :
            LET rem == cuts[i].rem
                p == cuts[i].pos
            IN  /\ PieceOf(i) = [j \in 1..(p + 1) |-> IF j <= p THEN rem[j]
                                                      ELSE eos_token_id]
                /\ PieceLengthOf(i) = p + 1
                /\ RemainderAfter(i) = [j \in 1..(Len(rem) - p - 1) |-> rem[j + p + 1]]

\* A cut at a boundary token at position 1 or later that leaves a remainder.
C12_Witness ==
    /\ pc = "while"
    /\ \E i \in 1..Len(cuts) :
         /\ cuts[i].pos >= 1
         /\ cuts[i].rem[cuts[i].pos + 1] = split_value
         /\ PieceLengthOf(i) = cuts[i].pos + 1
         /\ Len(RemainderAfter(i)) >= 1
         /\ RemainderAfter(i)[1] = cuts[i].rem[cuts[i].pos + 2]

----------------------------------------------------------------------------
\* First-Fit Decreasing, stated apart from the packing loop.

\* How many indices come before index i in descending length order, ties in
\* index order.
RefRank(ls, i) ==
    Cardinality({j \in 0..(Len(ls) - 1) :
                    \/ ls[j + 1] > ls[i + 1]
                    \/ (ls[j + 1] = ls[i + 1] /\ j < i)})

\* The indices in the order First-Fit Decreasing takes them.
RefOrder(ls) ==
    [k \in 1..Len(ls) |-> CHOOSE i \in 0..(Len(ls) - 1) : RefRank(ls, i) = k - 1]

\* The bins after the items from the k-th on are placed into the bins bs: an
\* item goes to the lowest-numbered bin whose members leave room for it, or
\* to a new bin.
RECURSIVE RefFFD(_, _, _)
RefFFD(ls, k, bs) ==
    IF k > Len(ls) THEN bs
    ELSE LET i == RefOrder(ls)[k]
             l == ls[i + 1]
             room == {b \in 1..Len(bs) : BLOCK_SIZE - Occupied(bs[b]) >= l}
         IN  IF room = {}
             THEN RefFFD(ls, k + 1, Append(bs, <<<<l, i>>>>))
             ELSE LET b == CHOOSE c \in room : \A e \in room : c <= e
                  IN  RefFFD(ls, k + 1, [bs EXCEPT ![b] = Append(@, <<l, i>>)])

\* C13: the sorted pairs are in First-Fit Decreasing order and, after the
\* packing loop, the bins are those of First-Fit Decreasing, each with free
\* capacity BLOCK_SIZE minus its occupancy.
C13_FirstFitDecreasing ==
    pc \in {"pack", "build", "ret"} =>
        /\ indexed_lengths =
             [k \in 1..Len(lengths) |-> <<lengths[RefOrder(lengths)[k] + 1],
                                          RefOrder(lengths)[k]>>]
        /\ pc \in {"build", "ret"} =>
             /\ bins = RefFFD(lengths, 1, <<>>)
             /\ bin_space = [b \in 1..Len(bins) |-> BLOCK_SIZE - Occupied(bins[b])]

\* Lengths that are not in descending order and have a tie, packed into two
\* bins: the first is filled by a later item, the second is opened because
\* the first has no room.
C13_Witness ==
    /\ pc = "build"
    /\ Len(lengths) = 4
    /\ lengths[1] < lengths[2]
    /\ lengths[2] = lengths[3]
    /\ Len(bins) = 2
    /\ Len(bins[1]) = 2
    /\ bin_space[1] = 0
    /\ bins[1][1][2] = 1
    /\ bins[2][1][2] = 2

----------------------------------------------------------------------------
\* The Blocks map_to_batch has built so far.

\* The j-th Block built (from bins[j]): a row of the numbered shard it went
\* to, or a row of the buffer.
BuiltBlock(j) ==
    LET s == (j - 1) \div SLICE_SIZE
    IN  IF s < slice_counter
        THEN LET td == files[NumberedPath(idx0, s)]
                 r == ((j - 1) % SLICE_SIZE) + 1
             IN  [input_ids |-> td.input_ids[r], position_ids |-> td.position_ids[r]]
        ELSE [input_ids |-> out_input_ids[j - SLICE_SIZE * slice_counter],
              position_ids |-> out_position_ids[j - SLICE_SIZE * slice_counter]]

\* Where the m-th member of a bin starts in the Block.
MemberStart(bin, m) == SumSeq([n \in 1..(m - 1) |-> bin[n][1]])

\* C14: every Block built has BLOCK_SIZE input_ids and BLOCK_SIZE
\* position_ids; each member's tokens stand at the member's place, members in
\* bin order, with positions 0..length-1; beyond the members input_ids holds
\* the terminator and position_ids holds 0.  The rest shard holds the buffer.
C14_BlockLayout ==
    pc \in {"build", "ret"} =>
        /\ \A j \in 1..bi :
             LET blk == BuiltBlock(j)  bin == bins[j]
             IN  /\ Len(blk.input_ids) = BLOCK_SIZE
                 /\ Len(blk.position_ids) = BLOCK_SIZE
                 /\ \A m \in 1..Len(bin) : \A o \in 0..(bin[m][1] - 1) :
                      /\ blk.input_ids[MemberStart(bin, m) + o + 1]
                           = tokenized[bin[m][2] + 1][o + 1]
                      /\ blk.position_ids[MemberStart(bin, m) + o + 1] = o
                 /\ \A q \in (Occupied(bin) + 1)..BLOCK_SIZE :
                      /\ blk.input_ids[q] = eos_token_id
                      /\ blk.position_ids[q] = 0
        /\ (pc = "ret" /\ Len(out_input_ids) > 0) =>
             /\ RestPath(idx0) \in DOMAIN files
             /\ files[RestPath(idx0)].input_ids = out_input_ids
             /\ files[RestPath(idx0)].position_ids = out_position_ids

\* A Block of two members and padding has gone to a numbered shard, the
\* second member's positions starting again at 0.
C14_Witness ==
    /\ pc \in {"build", "ret"}
    /\ \E j \in 1..bi :
         /\ (j - 1) \div SLICE_SIZE < slice_counter
         /\ Len(bins[j]) = 2
         /\ Occupied(bins[j]) < BLOCK_SIZE
         /\ BuiltBlock(j).position_ids[2] = 0

----------------------------------------------------------------------------
\* What process_rest leaves behind.

\* The Blocks of every shard in the directory.
StoredRows == UNION {{RowsOf(files[p])[j] : j \in 1..Len(files[p].input_ids)} :
                        p \in DOMAIN files}

\* C15: when process_rest has returned, the path list is empty, the rolling
\* buffer holds at most SLICE_SIZE - 1 Blocks, and none of them is in any
\* shard of the directory.
C15_RemainderDropped ==
    pc = "done" =>
        /\ Len(all_files) = 0
        /\ buffer_length <= SLICE_SIZE - 1
        /\ Len(BufRows) = buffer_length
        /\ \A n \in 1..Len(BufRows) : BufRows[n] \notin StoredRows

\* process_rest has returned with SLICE_SIZE - 1 Blocks in the buffer after
\* writing a shard.
C15_Witness ==
    /\ pc = "done"
    /\ counter >= 1
    /\ buffer_length = SLICE_SIZE - 1
    /\ Len(BufRows) = SLICE_SIZE - 1

----------------------------------------------------------------------------
\* A sub-sequence longer than a Block at the packing stage.

----------------------------------------------------------------------------
\* The size of the rolling buffer.

\* Every leftover shard given to process_rest, read or still to read, holds
\* fewer than SLICE_SIZE Blocks.
SmallLeftovers ==
    /\ \A p \in DOMAIN consumed : Len(consumed[p].input_ids) < SLICE_SIZE
    /\ \A i \in 1..Len(all_files) : Len(files[all_files[i]].input_ids) < SLICE_SIZE

\* C17: buffer_length is the number of Blocks input_buffer and pos_buffer
\* hold, and when every leftover shard holds fewer than SLICE_SIZE Blocks it
\* never exceeds 2 * SLICE_SIZE - 1.
C17_BufferBound ==
    /\ buffer_length = Len(Concat(input_buffer))
    /\ buffer_length = Len(Concat(pos_buffer))
    /\ SmallLeftovers => buffer_length <= 2 * SLICE_SIZE - 1

\* Leftover shards of fewer than SLICE_SIZE Blocks each: a remainder of
\* SLICE_SIZE - 1 Blocks was in the buffer when a shard of SLICE_SIZE - 1
\* Blocks was read.
C17_Witness ==
    /\ pc = "inner"
    /\ SmallLeftovers
    /\ Cardinality(DOMAIN consumed) >= 2
    /\ Len(consumed[file].input_ids) = SLICE_SIZE - 1
    /\ buffer_length = 2 * SLICE_SIZE - 2
    /\ Len(input_buffer) = 2

----------------------------------------------------------------------------
\* The outcome of process_rest in aggregate.

\* The Blocks of all the shards process_rest has read.
TotalBlocks == BlocksIn(consumed, DOMAIN consumed)

\* C18: whatever the order of the paths, when process_rest has returned it
\* has written TotalBlocks div SLICE_SIZE shards, numbered from 0, the buffer
\* holds TotalBlocks mod SLICE_SIZE Blocks, every shard was read and deleted
\* and no rest shard is left.
C18_OrderIndependentOutcome ==
    pc = "done" =>
        /\ counter = TotalBlocks \div SLICE_SIZE
        /\ {p \in DOMAIN files : Len(p) = 3} = {ReslicedPath(c) : c \in 0..(counter - 1)}
        /\ buffer_length = TotalBlocks % SLICE_SIZE
        /\ removed = DOMAIN consumed
        /\ {p \in DOMAIN files : IsRest(p)} = {}

\* Two shards of SLICE_SIZE + 1 and 2 * SLICE_SIZE - 1 Blocks, the first
\* read last: the remainders of the two add up to one more shard and
\* nothing is dropped.
C18_Witness ==
    /\ pc = "done"
    /\ DOMAIN consumed = {RestPath(1), RestPath(2)}
    /\ Len(consumed[RestPath(1)].input_ids) = SLICE_SIZE + 1
    /\ Len(consumed[RestPath(2)].input_ids) = 2 * SLICE_SIZE - 1
    /\ file = RestPath(1)
    /\ counter = 3
    /\ buffer_length = 0

----------------------------------------------------------------------------
\* The shard namespace.

\* C19: the paths written by the workers and by process_rest, in any
\* interleaving, are pairwise distinct: no path is written twice.
C19_NoPathWrittenTwice ==
    \A a, b \in 1..Len(written) : a # b => written[a] # written[b]

\* The worker of batch 0 wrote a numbered shard, then the worker of batch
\* MaxBatch wrote, then the worker of batch 0 wrote its rest shard, and
\* process_rest has written a shard.
C19_Witness ==
    \E a, b, c, d \in 1..Len(written) :
        /\ a < b
        /\ b < c
        /\ c < d
        /\ written[a] = NumberedPath(0, 0)
        /\ written[b] \in {NumberedPath(MaxBatch, 0), RestPath(MaxBatch)}
        /\ written[c] = RestPath(0)
        /\ written[d] = ReslicedPath(0)

----------------------------------------------------------------------------
\* Termination of process_rest.

\* C20: process_rest returns, and from then on the path list is empty, every
\* shard it read is deleted and no leftover shard is left in the directory.
C20_RestTerminates ==
    <>[](/\ pc = "done"
         /\ Len(all_files) = 0
         /\ removed = DOMAIN consumed
         /\ {p \in DOMAIN files : IsRest(p)} = {})

\* process_rest has returned after reading and deleting MaxFiles shards, one
\* of them of MaxShardBlocks Blocks.
C20_Witness ==
    /\ pc = "done"
    /\ Len(all_files) = 0
    /\ Cardinality(removed) = MaxFiles
    /\ \E p \in removed : Len(consumed[p].input_ids) = MaxShardBlocks
    /\ {p \in DOMAIN files : IsRest(p)} = {}

----------------------------------------------------------------------------
\* The density of the bins.

\* The bins that are at most half full.
HalfEmptyBins == {b \in 1..Len(bins) : 2 * Occupied(bins[b]) <= BLOCK_SIZE}

\* C21: at every step of the packing loop and after it, any two distinct
\* bins together hold more than BLOCK_SIZE tokens, so at most one bin is at
\* most half full.
C21_FirstFitDensity ==
    /\ \A a, b \in 1..Len(bins) :
         a # b => Occupied(bins[a]) + Occupied(bins[b]) > BLOCK_SIZE
    /\ Cardinality(HalfEmptyBins) <= 1

\* Three bins after the packing loop, the last at most half full, an earlier
\* one filled by a later item.
C21_Witness ==
    /\ pc = "build"
    /\ Len(bins) >= 3
    /\ HalfEmptyBins = {Len(bins)}
    /\ \E b \in 1..(Len(bins) - 1) : Len(bins[b]) >= 2

----------------------------------------------------------------------------
\* Termination of the splitter's while loop.

\* C22: every iteration of the while loop that does not break leaves a
\* remainder at least one token shorter, by split_pos + 1 tokens, also when
\* split_pos is 0; and the while loop, once entered, is left.
C22_WhileTerminates ==
    /\ [][(pc = "while" /\ pc' = "while") =>
            /\ Len(t') < Len(t)
            /\ Len(t') = Len(t) - (split_pos(t) + 1)]_vars
    /\ (pc = "while") ~> (pc # "while")

\* The while loop has cut at position 0, with no boundary token before the
\* limit, and goes on with a remainder one token shorter that is still too
\* long for a Block.
C22_Witness ==
    /\ pc = "while"
    /\ Len(cuts) >= 1
    /\ cuts[Len(cuts)].pos = 0
    /\ DotsBelowLimit(cuts[Len(cuts)].rem) = {}
    /\ Len(t) = Len(cuts[Len(cuts)].rem) - 1
    /\ Len(t) > BLOCK_SIZE - 1

====
